---- MODULE Spec2Model ----
(***************************************************************************)
(* Newton-CG outer driver of oneDAL                                        *)
(* (cpp/oneapi/dal/backend/primitives/optimizers/newton_cg_dpc.cpp).       *)
(*                                                                         *)
(* The host thread of newton_cg is a sequential program whose position is  *)
(* pc; every primitive it calls is issued to the device as an event with a *)
(* dependency list.  The device completes an event, and applies its effect *)
(* on device memory and on the host scalar behind its out-pointer, at any  *)
(* moment after all its dependencies have completed.  wait_and_throw and   *)
(* the calls that return host values (cg_solve's iteration count,          *)
(* backtracking's step length) block the host until then.                  *)
(*                                                                         *)
(* Reals are exact: vectors hold integers, and tol, tol_k and alpha_opt    *)
(* are rationals <<numerator, denominator>>.                               *)
(***************************************************************************)
EXTENDS Integers, Sequences, FiniteSets

\* ------------------------------------------------------------------ bounds
MaxIter == 2        \* maxiter is drawn from -1..MaxIter
MaxHalvings == 1    \* the line search halves its step at most MaxHalvings times

\* The inner iteration caps newton_cg is called with, and the components of the
\* vectors an opaque objective produces: the driver branches on the sign of a dot
\* product and on max_abs < tol only.
InnerCaps == {1}
OpaqueValues == {-1, 0, 1}

\* ------------------------------------------------------- program constants
MaxAttempts == 10   \* while (desc < 0 && iter_num < 10)
ShrinkFactor == 10  \* tol_k /= 10

NoEvent == 0        \* sycl::event last = {}: a default event, complete from the start
FirstEvent == 1     \* the operation that produced the current iterate x
CallerEvent == FirstEvent   \* at the call: the caller's operation that produced x0

VARIABLES
    f, tol, maxiter, maxinner,                    \* arguments of newton_cg
    first,                                        \* what an earlier call returned
    x, gradient, direction, buffer2,              \* device memory
    events, done, writer,                         \* the task graph
    failed,                                       \* events that completed with an error
    pc, host, exit, result                        \* the host thread

args == <<f, tol, maxiter, maxinner, first>>
memory == <<x, gradient, direction, buffer2>>
graph == <<events, done, writer>>
vars == <<f, tol, maxiter, maxinner, first, x, gradient, direction, buffer2,
          events, done, writer, failed, pc, host, exit, result>>

\* --------------------------------------------------------------- rationals
RatLess(p, q) == p[1] * q[2] < q[1] * p[2]

RatDiv(p, k) == <<p[1], p[2] * k>>

Abs(a) == IF a < 0 THEN -a ELSE a

\* ----------------------------------------------------------------- vectors
Zero(n) == [i \in 1..n |-> 0]

Neg(v) == [i \in 1..Len(v) |-> -v[i]]

Add(u, v) == [i \in 1..Len(u) |-> u[i] + v[i]]

Scaled(k, v) == [i \in 1..Len(v) |-> k * v[i]]

RECURSIVE DotFrom(_, _, _)
DotFrom(u, v, i) == IF i > Len(u) THEN 0 ELSE u[i] * v[i] + DotFrom(u, v, i + 1)

Dot(u, v) == DotFrom(u, v, 1)

RECURSIVE L1From(_, _)
L1From(v, i) == IF i > Len(v) THEN 0 ELSE Abs(v[i]) + L1From(v, i + 1)

L1Norm(v) == L1From(v, 1)

RECURSIVE MaxAbsFrom(_, _)
MaxAbsFrom(v, i) ==
    IF i > Len(v) THEN 0
    ELSE LET m == MaxAbsFrom(v, i + 1) IN IF Abs(v[i]) > m THEN Abs(v[i]) ELSE m

MaxAbs(v) == MaxAbsFrom(v, 1)

OnGrid(v, den) == \A i \in 1..Len(v) : v[i] % den = 0

Fraction(v, den) == [i \in 1..Len(v) |-> v[i] \div den]

OpaqueVectors(n) == [1..n -> OpaqueValues]

\* --------------------------------------------- objective function (base_function)
\* The objectives the driver is run on: f(x) = 0.5*||x||^2, f(x) = -0.5*||x||^2
\* (its Hessian-vector product has negative curvature along every direction), and
\* an opaque objective, of which only the vector shapes are known.
Objectives == {"quadratic", "negative_curvature", "opaque"}

Curvature(fk) == IF fk = "quadratic" THEN 1 ELSE -1

\* f.update_x(x, true, deps) recomputes the gradient from scratch at x.
GradientOutcomes(fk, xk) ==
    IF fk = "opaque" THEN OpaqueVectors(Len(xk)) ELSE {Scaled(Curvature(fk), xk)}

\* f.get_hessian_product() applied to v.
HessianProduct(fk, v) == Scaled(Curvature(fk), v)

\* twice the objective value at p
TwiceValue(fk, p) == Curvature(fk) * Dot(p, p)

\* ------------------------------------------------------------------ cg_solve
\* Truncated conjugate gradient for H*xk = b: stop at the iteration cap, stop on
\* non-positive curvature <d, p> <= 0 returning the iterate so far, otherwise take
\* the CG step and stop once the residual norm is below tol_k.  The divisions are
\* exact for the objectives above (H = I or H = -I).
RECURSIVE CgLoop(_, _, _, _, _, _, _)
CgLoop(fk, xk, r, d, k, tolk, maxin) ==
    IF k >= maxin THEN [x |-> xk, iters |-> k]
    ELSE LET p == HessianProduct(fk, d)
             c == Dot(d, p)
         IN  IF c <= 0 THEN [x |-> xk, iters |-> k]
             ELSE LET rr == Dot(r, r)
                      x1 == [i \in 1..Len(xk) |-> xk[i] + (rr * d[i]) \div c]
                      r1 == [i \in 1..Len(r) |-> r[i] - (rr * p[i]) \div c]
                      d1 == [i \in 1..Len(d) |-> r1[i] + (Dot(r1, r1) * d[i]) \div rr]
                  IN  IF RatLess(<<L1Norm(r1), 1>>, tolk)
                      THEN [x |-> x1, iters |-> k + 1]
                      ELSE CgLoop(fk, x1, r1, d1, k + 1, tolk, maxin)

\* cg_solve(queue, f.get_hessian_product(), b, direction, buffer1..3, tol_k, 0,
\* maxinner, deps) from the initial guess 0: the directions and inner iteration
\* counts it can produce.  Of an opaque objective's solve only this is known: the
\* direction differs from the initial guess exactly when a CG step was taken.
CgOutcomes(fk, b, tolk, maxin) ==
    IF fk = "opaque"
    THEN {o \in [x : OpaqueVectors(Len(b)), iters : 0..maxin] :
             (o.iters = 0) <=> (o.x = Zero(Len(b)))}
    ELSE {CgLoop(fk, Zero(Len(b)), b, b, 0, tolk, maxin)}

\* -------------------------------------------------------------- backtracking
\* Armijo's sufficient decrease for the step 1/den along d from xk, with constant
\* c1 = 1e-4; negGrad is the negated gradient the objective's buffer holds:
\*   f(xk + d/den) <= f(xk) + c1 * (1/den) * <grad, d>
Armijo(fk, xk, d, negGrad, den) ==
    (TwiceValue(fk, Add(xk, Fraction(d, den))) - TwiceValue(fk, xk)) * den * 10000
        <= -2 * Dot(negGrad, d)

\* The step is halved from 1 until Armijo holds; the smallest step tried is
\* returned when none does.  Steps stay on the integer grid of the vectors.
RECURSIVE HalveFrom(_, _, _, _, _, _)
HalveFrom(fk, xk, d, negGrad, den, k) ==
    IF k >= MaxHalvings \/ ~OnGrid(d, 2 * den) \/ Armijo(fk, xk, d, negGrad, den)
    THEN den
    ELSE HalveFrom(fk, xk, d, negGrad, 2 * den, k + 1)

RECURSIVE Pow2(_)
Pow2(k) == IF k = 0 THEN 1 ELSE 2 * Pow2(k - 1)

\* backtracking(queue, f, x, direction, buffer2, 1, 1e-4, true, deps): the
\* denominators den of the step lengths alpha_opt = 1/den it can return.
StepOutcomes(fk, xk, d, negGrad) ==
    IF fk = "opaque"
    THEN {Pow2(k) : k \in {j \in 0..MaxHalvings : OnGrid(d, Pow2(j))}}
    ELSE {HalveFrom(fk, xk, d, negGrad, 1, 0)}

\* ------------------------------------------------------------ the task graph
Buffers == {"x", "gradient", "hessian", "direction", "buffer1", "buffer2", "buffer3",
            "tmp_gpu"}

IsDone(e) == e = NoEvent \/ e \in done

AllDone(es) == \A e \in es : IsDone(e)

NextId == Len(events) + 1

\* wait_and_throw returns normally only if no operation of the queue has reported
\* an asynchronous error.
NoAsyncError == failed = {}

\* The events an event is ordered after, directly or transitively, itself included;
\* a dependency list holds events issued earlier only.
RECURSIVE AncestorsOf(_)
AncestorsOf(e) ==
    {e} \cup UNION {AncestorsOf(d) : d \in events[e].deps \ {NoEvent}}

\* The events an event list is ordered after, directly or transitively.
Ancestors(es) == UNION {AncestorsOf(e) : e \in es \ {NoEvent}}

\* The event of an operation handed to the queue with the dependency list d.
\* producers: the operations that last wrote the buffers it reads; declared: d
\* holds, directly or transitively, the handle of each of them.
Event(op, d, reads, writes) ==
    LET producers == {writer[b] : b \in reads} \ {NoEvent}
    IN  [op |-> op, deps |-> d, producers |-> producers,
         declared |-> producers \subseteq Ancestors(d), reads |-> reads,
         writes |-> writes]

Issue(op, d, reads, writes) ==
    /\ events' = Append(events, Event(op, d, reads, writes))
    /\ writer' = [b \in Buffers |-> IF b \in writes THEN NextId ELSE writer[b]]

\* ----------------------------------------------- decisions of the outer driver
\* faulty variant: the convergence test with <= for <
ConvergenceTestLeq(gma, t) == ~RatLess(t, <<gma, 1>>)

\* if (grad_max_abs < tol) break;
ConvergenceTest(gma, t) == RatLess(<<gma, 1>>, t)

\* Float tol_k = std::min<Float>(sqrt(grad_norm), 0.5); the L1 norm of an integer
\* vector is 0 or at least 1, and sqrt(g) >= 1 > 0.5 for g >= 1.
InitialTolK(gn) == IF gn = 0 THEN <<0, 1>> ELSE <<1, 2>>

\* while (desc < 0 && iter_num < 10)
RetryCondition(d, k) == d < 0 /\ k < MaxAttempts

\* faulty variant: tol_k is divided before the first attempt too
ShrinkTolKAlways(tk, k) == RatDiv(tk, ShrinkFactor)

\* if (iter_num > 0) tol_k /= 10;
ShrinkTolK(tk, k) == IF k > 0 THEN RatDiv(tk, ShrinkFactor) ELSE tk

\* if (desc < 0) return make_tuple(last_event, cur_iter_id, inner_iter_sum);
FailureTest(d) == d < 0

\* faulty variant: the body of the outer loop runs at least once
LoopConditionDoWhile(k, m) == k < m \/ k = 0

\* faulty variant: the outer loop runs one iteration more
LoopConditionLeq(k, m) == k <= m

\* while (cur_iter_id < maxiter)
LoopCondition(k, m) == k < m

\* cur_iter_id++;
NextIterId(k) == k + 1

\* last = copy(queue, x, buffer2, {});
CommitDeps(lastEvent) == {}

\* faulty variant: a default event is returned in place of the last operation's
ReturnTupleNoHandle(e, outer, inner) ==
    [event |-> NoEvent, outer_iters_used |-> outer, total_inner_iters |-> inner]

\* faulty variant: the count of completed iterations is returned
ReturnTupleCompleted(e, outer, inner) ==
    [event |-> e, outer_iters_used |-> outer - 1, total_inner_iters |-> inner]

\* return make_tuple(last, cur_iter_id, inner_iter_sum);
ReturnTuple(e, outer, inner) ==
    [event |-> e, outer_iters_used |-> outer, total_inner_iters |-> inner]

NoResult == [event |-> NoEvent, outer_iters_used |-> -1, total_inner_iters |-> -1]

\* The update norm is the real number sqrt(radicand) * factor; 0 has one form.
Real(radicand, factor) ==
    IF radicand = 0 \/ factor[1] = 0
    THEN [radicand |-> 0, factor |-> <<0, 1>>]
    ELSE [radicand |-> radicand, factor |-> factor]

\* Float update_norm = tol + 1;
InitialUpdateNorm(t) == Real(1, <<t[1] + t[2], t[2]>>)

\* update_norm = sqrt(update_norm) * alpha_opt; of the integer <d, d> the
\* reduction has written to update_norm
SqrtTimesAlpha(u, alpha) == Real(u.factor[1], alpha)

\* The locals of one outer iteration as they are before the iteration sets them.
FreshIteration(h) ==
    [h EXCEPT !.grad_norm = 0, !.grad_max_abs = 0, !.tol_k = <<0, 1>>, !.desc = -1,
              !.iter_num = 0, !.last_event = NoEvent, !.update_event_vec = {},
              !.prepare_grad_event = NoEvent, !.init_dir_event = NoEvent,
              !.solve_event = NoEvent, !.inner_iter = 0, !.alpha_opt = <<1, 1>>, !.awaited = NoEvent]

\* ---------------------------------------------------------------------- Init
Tolerances == {<<0, 1>>, <<1, 1000000>>, <<2, 1>>}

Problems ==
    {<<"quadratic", <<1, 1, 1, 1, 1>>>>, <<"quadratic", <<0, 0>>>>,
     <<"negative_curvature", <<1, -1>>>>, <<"opaque", <<0>>>>}

\* The state newton_cg starts in when called on the iterate x0.
\* event_vector last_iter_deps = deps: the caller's dependency list is either empty
\* (the caller has waited for the operation that produced x0) or holds its handle.
Call(x0) ==
    /\ x = x0
    /\ gradient = Zero(Len(x0))
    /\ direction = Zero(Len(x0))
    /\ buffer2 = Zero(Len(x0))
    /\ events = <<[op |-> "caller", deps |-> {}, producers |-> {}, declared |-> TRUE,
                   reads |-> {}, writes |-> {"x"}]>>
    /\ \E deps \in {{}, {CallerEvent}} :
          /\ done = IF deps = {} THEN {CallerEvent} ELSE {}
          /\ writer = [b \in Buffers |->
                          IF b = "x" /\ deps # {} THEN CallerEvent ELSE NoEvent]
          /\ host = [cur_iter_id |-> 0, inner_iter_sum |-> 0, last |-> NoEvent,
                     last_iter_deps |-> deps,
                     update_norm |-> InitialUpdateNorm(tol),
                     grad_norm |-> 0, grad_max_abs |-> 0, tol_k |-> <<0, 1>>,
                     desc |-> -1, iter_num |-> 0, last_event |-> NoEvent,
                     update_event_vec |-> {}, prepare_grad_event |-> NoEvent,
                     init_dir_event |-> NoEvent, solve_event |-> NoEvent,
                     inner_iter |-> 0, alpha_opt |-> <<1, 1>>, awaited |-> NoEvent]
    /\ failed = {}
    /\ pc = "loop"
    /\ exit = "none"
    /\ result = NoResult

NoCall == [exit |-> "none", complete |-> FALSE, outer_iters_used |-> -1,
           total_inner_iters |-> -1]

Init ==
    /\ tol \in Tolerances
    /\ maxiter \in -1..MaxIter
    /\ maxinner \in InnerCaps
    /\ first = NoCall
    /\ \E pr \in Problems : f = pr[1] /\ Call(pr[2])

\* The iterate the call started from.
X0 == (CHOOSE pr \in Problems : pr[1] = f /\ Len(pr[2]) = Len(x))[2]

\* ------------------------------------------------------------ the host thread
\* while (cur_iter_id < maxiter) { cur_iter_id++; ... }
LoopHead ==
    /\ pc = "loop"
    /\ IF LoopCondition(host.cur_iter_id, maxiter)
       THEN /\ host' = [host EXCEPT !.cur_iter_id = NextIterId(@)]
            /\ pc' = "update_x"
            /\ exit' = exit
       ELSE /\ pc' = "return"
            /\ exit' = "cap"
            /\ host' = host
    /\ UNCHANGED <<args, failed, memory, graph, result>>

\* faulty variant: update_x is not ordered after the previous commit
UpdateXNoDeps ==
    /\ pc = "update_x"
    /\ Issue("update_x", {}, {"x"}, {"gradient", "hessian"})
    /\ host' = [host EXCEPT !.update_event_vec = {NextId}]
    /\ pc' = "l1_norm"
    /\ UNCHANGED <<args, failed, memory, done, exit, result>>

\* auto update_event_vec = f.update_x(x, true, last_iter_deps);
UpdateX ==
    /\ pc = "update_x"
    /\ Issue("update_x", host.last_iter_deps, {"x"}, {"gradient", "hessian"})
    /\ host' = [host EXCEPT !.update_event_vec = {NextId}]
    /\ pc' = "l1_norm"
    /\ UNCHANGED <<args, failed, memory, done, exit, result>>

\* l1_norm(queue, gradient, tmp_gpu, &grad_norm, update_event_vec)
L1NormIssue ==
    /\ pc = "l1_norm"
    /\ Issue("l1_norm", host.update_event_vec, {"gradient"}, {"tmp_gpu"})
    /\ host' = [host EXCEPT !.awaited = NextId]
    /\ pc' = "l1_norm_wait"
    /\ UNCHANGED <<args, failed, memory, done, exit, result>>

\* faulty variant: max_abs is issued without waiting for l1_norm
L1NormNoWait ==
    /\ pc = "l1_norm_wait"
    /\ pc' = "max_abs"
    /\ UNCHANGED <<args, failed, memory, graph, host, exit, result>>

\* .wait_and_throw();
L1NormWait ==
    /\ pc = "l1_norm_wait"
    /\ IsDone(host.awaited)
    /\ NoAsyncError
    /\ pc' = "max_abs"
    /\ UNCHANGED <<args, failed, memory, graph, host, exit, result>>

\* max_abs(queue, gradient, tmp_gpu, &grad_max_abs, update_event_vec)
MaxAbsIssue ==
    /\ pc = "max_abs"
    /\ Issue("max_abs", host.update_event_vec, {"gradient"}, {"tmp_gpu"})
    /\ host' = [host EXCEPT !.awaited = NextId]
    /\ pc' = "max_abs_wait"
    /\ UNCHANGED <<args, failed, memory, done, exit, result>>

\* faulty variant: grad_max_abs is read without waiting for max_abs
MaxAbsNoWait ==
    /\ pc = "max_abs_wait"
    /\ pc' = "check"
    /\ UNCHANGED <<args, failed, memory, graph, host, exit, result>>

\* .wait_and_throw();
MaxAbsWait ==
    /\ pc = "max_abs_wait"
    /\ IsDone(host.awaited)
    /\ NoAsyncError
    /\ pc' = "check"
    /\ UNCHANGED <<args, failed, memory, graph, host, exit, result>>

\* if (grad_max_abs < tol) break;  Float tol_k = std::min<Float>(sqrt(grad_norm), 0.5);
ConvergenceCheck ==
    /\ pc = "check"
    /\ IF ConvergenceTest(host.grad_max_abs, tol)
       THEN /\ pc' = "return"
            /\ exit' = "converged"
            /\ host' = host
       ELSE /\ pc' = "negate"
            /\ exit' = exit
            /\ host' = [host EXCEPT !.tol_k = InitialTolK(host.grad_norm)]
    /\ UNCHANGED <<args, failed, memory, graph, result>>

\* faulty variant: the gradient is not negated
NegateGradientSkipped ==
    /\ pc = "negate"
    /\ host' = [host EXCEPT !.prepare_grad_event = NoEvent]
    /\ pc' = "fill"
    /\ UNCHANGED <<args, failed, memory, graph, exit, result>>

\* auto prepare_grad_event =
\*     element_wise(queue, kernel_minus, gradient, Float(0), gradient, update_event_vec);
NegateGradient ==
    /\ pc = "negate"
    /\ Issue("element_wise", host.update_event_vec, {"gradient"}, {"gradient"})
    /\ host' = [host EXCEPT !.prepare_grad_event = NextId]
    /\ pc' = "fill"
    /\ UNCHANGED <<args, failed, memory, done, exit, result>>

\* auto init_dir_event = fill(queue, direction, Float(0), { prepare_grad_event });
\* Float desc = -1; std::int32_t iter_num = 0; auto last_event = init_dir_event;
InitDirection ==
    /\ pc = "fill"
    /\ Issue("fill", {host.prepare_grad_event}, {}, {"direction"})
    /\ host' = [host EXCEPT !.init_dir_event = NextId, !.desc = -1, !.iter_num = 0,
                            !.last_event = NextId]
    /\ pc' = "retry"
    /\ UNCHANGED <<args, failed, memory, done, exit, result>>

\* while (desc < 0 && iter_num < 10) { if (iter_num > 0) tol_k /= 10; iter_num++; ... }
RetryTest ==
    /\ pc = "retry"
    /\ IF RetryCondition(host.desc, host.iter_num)
       THEN /\ host' = [host EXCEPT !.tol_k = ShrinkTolK(@, host.iter_num),
                                    !.iter_num = @ + 1]
            /\ pc' = "cg_solve"
       ELSE /\ host' = host
            /\ pc' = "desc_check"
    /\ UNCHANGED <<args, failed, memory, graph, exit, result>>

\* faulty variant: the iteration count of the last solve replaces the running total
CgSolveCallOverwrite ==
    /\ pc = "cg_solve"
    /\ IsDone(host.last_event)
    /\ Issue("cg_solve", {host.last_event}, {"gradient", "hessian"},
             {"direction", "buffer1", "buffer2", "buffer3"})
    /\ \E o \in CgOutcomes(f, gradient, host.tol_k, maxinner) :
          host' = [host EXCEPT !.solve_event = NextId, !.inner_iter = o.iters,
                               !.inner_iter_sum = o.iters]
    /\ pc' = "dot_desc"
    /\ UNCHANGED <<args, failed, memory, done, exit, result>>

\* auto [solve_event, inner_iter] = cg_solve(..., tol_k, Float(0), maxinner, { last_event });
\* inner_iter_sum += inner_iter;
\* The iteration count is a host value: the call returns once the solver has read
\* its residual norms, after its dependencies have completed.
CgSolveCall ==
    /\ pc = "cg_solve"
    /\ IsDone(host.last_event)
    /\ Issue("cg_solve", {host.last_event}, {"gradient", "hessian"},
             {"direction", "buffer1", "buffer2", "buffer3"})
    /\ \E o \in CgOutcomes(f, gradient, host.tol_k, maxinner) :
          host' = [host EXCEPT !.solve_event = NextId, !.inner_iter = o.iters,
                               !.inner_iter_sum = @ + o.iters]
    /\ pc' = "dot_desc"
    /\ UNCHANGED <<args, failed, memory, done, exit, result>>

\* last_event = dot_product(queue, gradient, direction, tmp_gpu, &desc, { solve_event });
DescIssue ==
    /\ pc = "dot_desc"
    /\ Issue("dot_product_desc", {host.solve_event}, {"gradient", "direction"},
             {"tmp_gpu"})
    /\ host' = [host EXCEPT !.last_event = NextId]
    /\ pc' = "dot_desc_wait"
    /\ UNCHANGED <<args, failed, memory, done, exit, result>>

\* last_event.wait_and_throw();
DescWait ==
    /\ pc = "dot_desc_wait"
    /\ IsDone(host.last_event)
    /\ NoAsyncError
    /\ pc' = "retry"
    /\ UNCHANGED <<args, failed, memory, graph, host, exit, result>>

\* if (desc < 0) return make_tuple(last_event, cur_iter_id, inner_iter_sum);
DescCheck ==
    /\ pc = "desc_check"
    /\ IF FailureTest(host.desc)
       THEN /\ result' = ReturnTuple(host.last_event, host.cur_iter_id,
                                     host.inner_iter_sum)
            /\ exit' = "descent_failure"
            /\ pc' = "done"
       ELSE /\ pc' = "backtracking"
            /\ UNCHANGED <<exit, result>>
    /\ UNCHANGED <<args, failed, memory, graph, host>>

\* faulty variant: the line search is handed x as the buffer of its accepted point
BacktrackingInPlace ==
    /\ pc = "backtracking"
    /\ IsDone(host.last_event)
    /\ Issue("backtracking", {host.last_event}, {"x", "direction", "gradient"}, {"x"})
    /\ done' = done \cup {NextId}
    /\ \E den \in StepOutcomes(f, x, direction, gradient) :
          /\ x' = Add(x, Fraction(direction, den))
          /\ host' = [host EXCEPT !.alpha_opt = <<1, den>>]
    /\ pc' = "dot_update"
    /\ UNCHANGED <<args, failed, buffer2, gradient, direction, exit, result>>

\* Float alpha_opt = backtracking(queue, f, x, direction, buffer2, Float(1),
\*                                Float(1e-4), true, { last_event });
\* The step length is a host value: the line search has finished, and the accepted
\* point is in buffer2, when the call returns.
Backtracking ==
    /\ pc = "backtracking"
    /\ IsDone(host.last_event)
    /\ Issue("backtracking", {host.last_event}, {"x", "direction", "gradient"},
             {"buffer2"})
    /\ done' = done \cup {NextId}
    /\ \E den \in StepOutcomes(f, x, direction, gradient) :
          /\ buffer2' = Add(x, Fraction(direction, den))
          /\ host' = [host EXCEPT !.alpha_opt = <<1, den>>]
    /\ pc' = "dot_update"
    /\ UNCHANGED <<args, failed, x, gradient, direction, exit, result>>

\* update_norm = 0;
\* dot_product(queue, direction, direction, tmp_gpu, &update_norm, { last_event })
UpdateNormIssue ==
    /\ pc = "dot_update"
    /\ Issue("dot_product_update", {host.last_event}, {"direction"}, {"tmp_gpu"})
    /\ host' = [host EXCEPT !.update_norm = Real(0, <<0, 1>>),
                            !.awaited = NextId]
    /\ pc' = "dot_update_wait"
    /\ UNCHANGED <<args, failed, memory, done, exit, result>>

\* .wait_and_throw(); update_norm = sqrt(update_norm) * alpha_opt;
UpdateNormWait ==
    /\ pc = "dot_update_wait"
    /\ IsDone(host.awaited)
    /\ NoAsyncError
    /\ host' = [host EXCEPT !.update_norm = SqrtTimesAlpha(@, host.alpha_opt)]
    /\ pc' = "commit"
    /\ UNCHANGED <<args, failed, memory, graph, exit, result>>

\* faulty variant: last_iter_deps is not set to the event of the copy
CommitForgetDeps ==
    /\ pc = "commit"
    /\ LET copy == Event("copy", CommitDeps(host.last_event), {"buffer2"}, {"x"})
       IN  events' = <<[copy EXCEPT !.deps = {e \in @ : ~IsDone(e)}]>>
    /\ done' = {}
    /\ writer' = [b \in Buffers |-> IF b = "x" THEN FirstEvent ELSE NoEvent]
    /\ host' = [FreshIteration(host) EXCEPT !.last = FirstEvent,
                                            !.last_iter_deps = {}]
    /\ pc' = "loop"
    /\ UNCHANGED <<args, failed, memory, exit, result>>

\* last = copy(queue, x, buffer2, {}); last_iter_deps = { last };  }
\* Every operation issued before the copy has completed by now (QueueDrained), and
\* the iteration's locals go out of scope: the completed events are dropped from the
\* table, and the copy becomes its first event, the producer of the next iterate.
Commit ==
    /\ pc = "commit"
    /\ LET copy == Event("copy", CommitDeps(host.last_event), {"buffer2"}, {"x"})
       IN  events' = <<[copy EXCEPT !.deps = {e \in @ : ~IsDone(e)}]>>
    /\ done' = {}
    /\ writer' = [b \in Buffers |-> IF b = "x" THEN FirstEvent ELSE NoEvent]
    /\ host' = [FreshIteration(host) EXCEPT !.last = FirstEvent,
                                            !.last_iter_deps = {FirstEvent}]
    /\ pc' = "loop"
    /\ UNCHANGED <<args, failed, memory, exit, result>>

\* return make_tuple(last, cur_iter_id, inner_iter_sum);
Return ==
    /\ pc = "return"
    /\ result' = ReturnTuple(host.last, host.cur_iter_id, host.inner_iter_sum)
    /\ pc' = "done"
    /\ UNCHANGED <<args, failed, memory, graph, host, exit>>

\* ----------------------------------------------------------------- the device
\* The queue completes an issued operation once its dependencies have completed;
\* its effect on device memory, and on the host scalar behind a reduction's
\* out-pointer, happens then.
Complete(e) ==
    /\ e \notin done
    /\ AllDone(events[e].deps)
    /\ done' = done \cup {e}
    /\ LET op == events[e].op IN
       \/ /\ op = "caller"
          /\ UNCHANGED <<memory, host>>
       \/ /\ op = "update_x"
          /\ gradient' \in GradientOutcomes(f, x)
          /\ UNCHANGED <<x, direction, buffer2, host>>
       \/ /\ op = "l1_norm"
          /\ host' = [host EXCEPT !.grad_norm = L1Norm(gradient)]
          /\ UNCHANGED <<x, gradient, direction, buffer2>>
       \/ /\ op = "max_abs"
          /\ host' = [host EXCEPT !.grad_max_abs = MaxAbs(gradient)]
          /\ UNCHANGED <<x, gradient, direction, buffer2>>
       \/ /\ op = "element_wise"
          /\ gradient' = Neg(gradient)
          /\ UNCHANGED <<x, direction, buffer2, host>>
       \/ /\ op = "fill"
          /\ direction' = Zero(Len(direction))
          /\ UNCHANGED <<x, gradient, buffer2, host>>
       \/ /\ op = "cg_solve"
          /\ \E o \in CgOutcomes(f, gradient, host.tol_k, maxinner) :
                /\ o.iters = host.inner_iter
                /\ direction' = o.x
          /\ UNCHANGED <<x, gradient, buffer2, host>>
       \/ /\ op = "dot_product_desc"
          /\ host' = [host EXCEPT !.desc = Dot(gradient, direction)]
          /\ UNCHANGED <<x, gradient, direction, buffer2>>
       \/ /\ op = "dot_product_update"
          /\ host' = [host EXCEPT !.update_norm =
                                      Real(1, <<Dot(direction, direction), 1>>)]
          /\ UNCHANGED <<x, gradient, direction, buffer2>>
       \/ /\ op = "copy"
          /\ x' = buffer2
          /\ UNCHANGED <<gradient, direction, buffer2, host>>
    /\ UNCHANGED <<args, failed, events, writer, pc, exit, result>>

Device == \E e \in 1..Len(events) : Complete(e)

Next ==
    \/ LoopHead
    \/ UpdateX
    \/ L1NormIssue
    \/ L1NormWait
    \/ MaxAbsIssue
    \/ MaxAbsWait
    \/ ConvergenceCheck
    \/ NegateGradient
    \/ InitDirection
    \/ RetryTest
    \/ CgSolveCall
    \/ DescIssue
    \/ DescWait
    \/ DescCheck
    \/ Backtracking
    \/ UpdateNormIssue
    \/ UpdateNormWait
    \/ Commit
    \/ Return
    \/ Device

Spec == Init /\ [][Next]_vars

\* The host thread keeps running and the queue executes what is submitted to it:
\* every primitive call returns.
SpecLive == Spec /\ WF_vars(Next)

\* ------------------------------------------------------ two calls, one after
\* the other, with the same arguments
\* What the caller holds once newton_cg has returned: the tuple's two counters and
\* an event, of which it can observe whether it has completed.
Returned ==
    [complete |-> IsDone(result.event),
     outer_iters_used |-> result.outer_iters_used,
     total_inner_iters |-> result.total_inner_iters]

\* The caller waits for the returned event, keeps what the first call returned and
\* calls newton_cg again, with the same arguments on the same initial iterate.
SecondCall ==
    /\ pc = "done"
    /\ first = NoCall
    /\ IsDone(result.event)
    /\ first' = [exit |-> exit, complete |-> Returned.complete,
                 outer_iters_used |-> Returned.outer_iters_used,
                 total_inner_iters |-> Returned.total_inner_iters]
    /\ x' = X0
    /\ gradient' = Zero(Len(x))
    /\ direction' = Zero(Len(x))
    /\ buffer2' = Zero(Len(x))
    /\ events' = <<[op |-> "caller", deps |-> {}, producers |-> {}, declared |-> TRUE,
                    reads |-> {}, writes |-> {"x"}]>>
    /\ done' = {CallerEvent}
    /\ writer' = [b \in Buffers |-> NoEvent]
    /\ host' = [FreshIteration(host) EXCEPT !.cur_iter_id = 0, !.inner_iter_sum = 0,
                                            !.last = NoEvent, !.last_iter_deps = {},
                                            !.update_norm = InitialUpdateNorm(tol)]
    /\ pc' = "loop"
    /\ exit' = "none"
    /\ result' = NoResult
    /\ UNCHANGED <<f, tol, maxiter, maxinner, failed>>

InitPair ==
    /\ Init
    /\ f = "opaque"
    /\ tol = <<1, 1000000>>
    /\ host.last_iter_deps = {}

NextPair == Next \/ SecondCall

SpecPair == InitPair /\ [][NextPair]_vars

\* ------------------------------------------- asynchronous errors of the device
\* An operation of the queue ends with an asynchronous error (a device or kernel
\* error) instead of its effect: its event completes, so that what depends on it
\* is released, and the error is held by the queue until a wait_and_throw.
Fail(e) ==
    /\ e \notin done
    /\ events[e].op # "caller"
    /\ AllDone(events[e].deps)
    /\ done' = done \cup {e}
    /\ failed' = failed \cup {e}
    /\ UNCHANGED <<args, memory, events, writer, pc, host, exit, result>>

DeviceError == \E e \in 1..Len(events) : Fail(e)

\* The blocking waits of the driver: the wait_and_throw calls of lines 66, 67, 110
\* and 129, and the event each of them waits for.
WaitPoints == {"l1_norm_wait", "max_abs_wait", "dot_desc_wait", "dot_update_wait"}

Awaited == IF pc = "dot_desc_wait" THEN host.last_event ELSE host.awaited

\* wait_and_throw with an asynchronous error pending: the exception leaves
\* newton_cg, which has no handler.
Throw ==
    /\ pc \in WaitPoints
    /\ IsDone(Awaited)
    /\ ~NoAsyncError
    /\ pc' = "thrown"
    /\ exit' = "exception"
    /\ UNCHANGED <<args, failed, memory, graph, host, result>>

NextFail == Next \/ DeviceError \/ Throw

SpecFail == Init /\ [][NextFail]_vars

\* When the commit copy is issued every earlier operation has completed: the host
\* has waited for the update-norm reduction, which is ordered after all of them.
QueueDrained == pc = "commit" => \A e \in 1..Len(events) : e \in done

\* ==================================================================== claims
\* The operations the host has issued since the iterate's producer (event 1).
IssuedOps == {events[e].op : e \in 2..Len(events)}

\* The phases of an outer iteration after its convergence check.
AfterCheck == {"negate", "fill", "retry", "cg_solve", "dot_desc", "dot_desc_wait",
               "desc_check", "backtracking", "dot_update", "dot_update_wait", "commit"}

LineSearchAndCommit == {"backtracking", "dot_update", "dot_update_wait", "commit"}

\* C1: whenever a cg_solve attempt has yielded desc <= 0 and fewer than 10 attempts
\* have been made, the driver retries (it does not leave the retry loop), so the
\* line search is only ever reached with desc > 0.
C1_RetryOnNonPositiveDesc ==
    /\ pc = "desc_check" => (host.desc > 0 \/ host.iter_num >= MaxAttempts)
    /\ pc = "backtracking" => host.desc > 0

\* C2: if the tenth attempt of an outer iteration still has desc <= 0, newton_cg
\* returns from that iteration: the line search and the commit are not reached.
C2_ExhaustionReturns ==
    (host.iter_num = MaxAttempts /\ host.desc <= 0) => pc \notin LineSearchAndCommit

\* C3: a call that ends by retry exhaustion and a call, with the same arguments,
\* that ends by convergence or at the iteration cap return different things.
C3_FailureSignalled ==
    (pc = "done" /\ first.exit = "descent_failure" /\ exit \in {"converged", "cap"})
        => Returned # [complete |-> first.complete,
                       outer_iters_used |-> first.outer_iters_used,
                       total_inner_iters |-> first.total_inner_iters]

\* C4: a call that exhausts maxiter without converging and a call, with the same
\* arguments, that converged return different things.
C4_NotConvergedSignalled ==
    (pc = "done" /\ first.exit = "cap" /\ exit = "converged")
        => Returned # [complete |-> first.complete,
                       outer_iters_used |-> first.outer_iters_used,
                       total_inner_iters |-> first.total_inner_iters]

\* C5: an iteration whose grad_max_abs is below tol stops at its check, having
\* issued nothing but update_x and the two norms, and returns the current
\* counters; and the loop is left as converged only then: otherwise it is left at
\* the iteration cap or on desc < 0.
C5_SoleConvergenceCriterion ==
    /\ pc \in AfterCheck => ~RatLess(<<host.grad_max_abs, 1>>, tol)
    /\ exit = "converged" =>
          /\ RatLess(<<host.grad_max_abs, 1>>, tol)
          /\ IssuedOps \subseteq {"update_x", "l1_norm", "max_abs"}
          /\ pc = "done" => result = [event |-> host.last,
                                      outer_iters_used |-> host.cur_iter_id,
                                      total_inner_iters |-> host.inner_iter_sum]
    /\ pc \in {"return", "done"} =>
          /\ exit \in {"converged", "cap", "descent_failure"}
          /\ exit = "cap" => host.cur_iter_id >= maxiter
          /\ exit = "descent_failure" => host.desc < 0

C5_Witness == pc = "done" /\ exit = "converged" /\ host.cur_iter_id = 2

\* The first iteration has read its grad_max_abs, and it is below tol.
FirstGradBelowTol ==
    /\ host.cur_iter_id = 1
    /\ \/ pc \in AfterCheck \cup {"check"}
       \/ pc \in {"return", "done"} /\ exit = "converged"
    /\ RatLess(<<host.grad_max_abs, 1>>, tol)

\* C6: with maxiter >= 1 and tol above the initial grad_max_abs the call stops at
\* the first check: no cg_solve, line search or commit is issued, x is the initial
\* iterate, and the tuple returned holds outer count 1 and inner total 0.
C6_ImmediateTermination ==
    /\ FirstGradBelowTol =>
          /\ pc \in {"check", "return", "done"}
          /\ IssuedOps \subseteq {"update_x", "l1_norm", "max_abs"}
          /\ x = X0
          /\ pc = "done" => /\ exit = "converged"
                            /\ result.outer_iters_used = 1
                            /\ result.total_inner_iters = 0
    /\ (/\ f # "opaque"
        /\ maxiter >= 1
        /\ RatLess(<<MaxAbs(Scaled(Curvature(f), X0)), 1>>, tol)
        /\ pc = "done") => /\ result.outer_iters_used = 1
                           /\ result.total_inner_iters = 0
                           /\ x = X0

C6_Witness ==
    pc = "done" /\ FirstGradBelowTol /\ result.outer_iters_used = 1 /\ tol = <<2, 1>>

\* f(x) = 0.5*||x||^2 with n = 5, x0 = (1, 1, 1, 1, 1) and tol = 1e-6
QuadraticScenario ==
    f = "quadratic" /\ X0 = <<1, 1, 1, 1, 1>> /\ tol = <<1, 1000000>>

\* C7 as stated: in the quadratic scenario a converged call reports outer count 1.
C7_ReportsOneIteration ==
    (QuadraticScenario /\ pc = "done" /\ exit = "converged")
        => result.outer_iters_used = 1

\* C7 as amended: in the quadratic scenario the first iteration's CG solve is exact
\* and its unit step is accepted, so its commit sets x to 0; convergence is detected
\* at the check of the second iteration.  With maxiter >= 2 the call returns as
\* converged with outer count 2 and x = 0; with maxiter = 1 it returns at the
\* iteration cap with outer count 1, and x = 0 once the returned event completes.
C7_ConvergesAtSecondCheck ==
    (QuadraticScenario /\ pc = "done") =>
        /\ maxiter >= 2 => /\ exit = "converged"
                           /\ result.outer_iters_used = 2
                           /\ x = Zero(5)
        /\ maxiter = 1 => /\ exit = "cap"
                          /\ result.outer_iters_used = 1
                          /\ IsDone(result.event) => x = Zero(5)
        /\ maxiter = 0 => result.outer_iters_used = 0 /\ x = X0

C7_Witness ==
    /\ QuadraticScenario /\ pc = "done" /\ exit = "converged"
    /\ result.outer_iters_used = 2 /\ x = Zero(5) /\ host.update_norm = Real(5, <<1, 1>>)

\* C8: on the objective whose Hessian-vector product has negative curvature along
\* every direction, the line search and the commit are never reached.
C8_NegativeCurvatureFails ==
    f = "negative_curvature" => pc \notin LineSearchAndCommit

\* A commit copy completes in this step.
CopyCompletes ==
    \E e \in 1..Len(events) : events[e].op = "copy" /\ e \notin done /\ e \in done'

\* C9: x is written only by the commit copy: x changes only in the step in which a
\* copy completes; from the gradient evaluation of an outer iteration to its commit
\* no copy is in flight; and an iteration that leaves by convergence or descent
\* failure has issued no copy.
C9_OnlyCommitWritesX ==
    /\ [][x' # x => CopyCompletes]_vars
    /\ [](pc \in (AfterCheck \cup {"max_abs", "max_abs_wait", "check"}) =>
             \A e \in 1..Len(events) : events[e].op = "copy" => e \in done)
    /\ []((pc = "done" /\ exit \in {"converged", "descent_failure"}) =>
             "copy" \notin IssuedOps)

C9_Witness == pc = "commit" /\ buffer2 # x /\ host.cur_iter_id = 2

\* C10: every operation is issued with a dependency list that holds, directly or
\* transitively, the handle of the operation that last wrote each buffer it reads.
C10_ProducersDeclared == \A e \in 1..Len(events) : events[e].declared

RECURSIVE Pow10(_)
Pow10(k) == IF k = 0 THEN 1 ELSE ShrinkFactor * Pow10(k - 1)

\* The phases of the descent-direction search of an outer iteration.
DirectionSearch == {"retry", "cg_solve", "dot_desc", "dot_desc_wait", "desc_check"}

\* C11: during the descent-direction search of an outer iteration tol_k is
\* min(sqrt(grad_norm), 0.5) of that iteration's gradient before and during the
\* first attempt, and that value divided by 10^(j-1) during attempt j; it is
\* never above 0.5, whatever an earlier iteration has shrunk it to.
C11_TolKSchedule ==
    pc \in DirectionSearch =>
        /\ host.grad_norm = L1Norm(gradient)
        /\ host.iter_num \in 0..MaxAttempts
        /\ host.iter_num = 0 => host.tol_k = InitialTolK(host.grad_norm)
        /\ host.iter_num >= 1 =>
              host.tol_k = RatDiv(InitialTolK(host.grad_norm), Pow10(host.iter_num - 1))
        /\ pc = "cg_solve" => host.iter_num >= 1
        /\ ~RatLess(<<1, 2>>, host.tol_k)

C11_Witness ==
    /\ pc = "cg_solve" /\ host.cur_iter_id = 2 /\ host.iter_num = 1
    /\ host.tol_k = <<1, 2>> /\ host.inner_iter_sum >= 3

\* C12: inner_iter_sum grows by exactly the iteration count each cg_solve call
\* returns, accepted or not, and by nothing else; each call is capped by the
\* caller's maxinner on its own, so after j attempts of outer iteration k the total
\* is at most maxinner * (10 * (k - 1) + j); and the total is what is returned.
C12_InnerIterAccounting ==
    /\ [][IF pc = "cg_solve" /\ pc' = "dot_desc"
          THEN /\ host'.inner_iter \in 0..maxinner
               /\ host'.inner_iter_sum = host.inner_iter_sum + host'.inner_iter
          ELSE host'.inner_iter_sum = host.inner_iter_sum]_vars
    /\ []((host.cur_iter_id >= 1 /\ pc # "loop" /\ exit # "cap") =>
             host.inner_iter_sum
                 <= maxinner * (MaxAttempts * (host.cur_iter_id - 1) + host.iter_num))
    /\ [](host.inner_iter_sum <= MaxAttempts * maxinner * host.cur_iter_id)
    /\ [](pc = "done" => result.total_inner_iters = host.inner_iter_sum)

C12_Witness ==
    /\ pc = "done" /\ exit = "descent_failure"
    /\ result.outer_iters_used = 2
    /\ result.total_inner_iters > MaxAttempts * maxinner

\* C13: once an operation issued by newton_cg has failed, newton_cg does not return
\* normally, whichever operation it was, the last commit copy included, and it
\* issues no further commit copy.
C13_FailuresSurfaced ==
    /\ failed # {} => pc # "done"
    /\ pc = "commit" => failed = {}

\* The operations of the current outer iteration that write the host scalar of a
\* reduction, and whether all of them have completed.
Written(ops) ==
    /\ \E e \in 1..Len(events) : events[e].op \in ops
    /\ \A e \in 1..Len(events) : events[e].op \in ops => e \in done

\* C14: where the host reads the scalar of a reduction, the reduction has completed
\* and the scalar holds its result: grad_norm and grad_max_abs at the convergence
\* check and the computation of tol_k, desc at the retry test after an attempt and
\* at the failure test, update_norm where it is scaled by alpha_opt.  Before the
\* first attempt the retry test reads the initial desc = -1, which no task writes.
C14_ReadsAfterWait ==
    /\ pc = "check" =>
          /\ Written({"l1_norm"}) /\ Written({"max_abs"})
          /\ host.grad_norm = L1Norm(gradient)
          /\ host.grad_max_abs = MaxAbs(gradient)
    /\ (pc \in {"retry", "desc_check"} /\ host.iter_num >= 1) =>
          /\ Written({"dot_product_desc"})
          /\ events[host.last_event].op = "dot_product_desc"
          /\ host.desc = Dot(gradient, direction)
    /\ (pc = "retry" /\ host.iter_num = 0) =>
          /\ host.desc = -1
          /\ "dot_product_desc" \notin IssuedOps
    /\ pc = "commit" =>
          /\ Written({"dot_product_update"})
          /\ host.update_norm = Real(Dot(direction, direction), host.alpha_opt)

C14_Witness ==
    /\ pc = "commit" /\ host.iter_num = 2 /\ host.desc > 0
    /\ host.update_norm = Real(1, <<1, 1>>)

\* The operations issued and not yet completed, and the scratch regions of the
\* driver an operation reads or writes.
InFlight == {e \in 1..Len(events) : e \notin done}

Scratch == {"buffer1", "buffer2", "buffer3", "tmp_gpu"}

Touched(e) == (events[e].reads \cup events[e].writes) \cap Scratch

\* C15: no two operations in flight touch the same scratch region (buffer1,
\* buffer2, buffer3, the reduction slot tmp_gpu); at most one cg_solve or line
\* search is in flight; and the line search, which runs while the host is inside
\* the backtracking call, starts with nothing else in flight.
C15_ScratchExclusive ==
    /\ \A a \in InFlight : \A b \in InFlight \ {a} : Touched(a) \cap Touched(b) = {}
    /\ Cardinality({e \in InFlight : events[e].op \in {"cg_solve", "backtracking"}}) <= 1
    /\ \A e \in InFlight :
          events[e].op = "cg_solve" =>
              \A b \in InFlight \ {e} : Touched(b) \subseteq {"tmp_gpu"}
    /\ pc = "backtracking" => InFlight = {}

C15_Witness ==
    /\ pc = "l1_norm_wait" /\ InFlight = {1, 2, 3}
    /\ events[1].op = "copy" /\ Touched(1) = {"buffer2"} /\ Touched(3) = {"tmp_gpu"}

\* C16: every call returns, through the convergence check, through retry
\* exhaustion or at the iteration cap; it starts at most maxiter outer iterations,
\* each with one update_x and at most 10 cg_solve calls; with maxiter <= 0 it
\* returns outer count 0 and has issued nothing.
C16_Terminates ==
    /\ <>(pc = "done")
    /\ [](pc = "done" =>
             /\ exit \in {"converged", "descent_failure", "cap"}
             /\ exit = "converged" => ConvergenceTest(host.grad_max_abs, tol)
             /\ exit = "descent_failure" => host.desc < 0 /\ host.iter_num = MaxAttempts
             /\ exit = "cap" => ~LoopCondition(host.cur_iter_id, maxiter))
    /\ [](host.cur_iter_id >= 0 /\ (host.cur_iter_id > 0 => host.cur_iter_id <= maxiter))
    /\ [](Cardinality({e \in 1..Len(events) : events[e].op = "update_x"}) <= 1)
    /\ [](Cardinality({e \in 1..Len(events) : events[e].op = "cg_solve"}) <= MaxAttempts)
    /\ []((maxiter <= 0 /\ pc = "done") =>
             /\ result.outer_iters_used = 0
             /\ result.total_inner_iters = 0
             /\ IssuedOps = {} /\ Len(events) = 1)

C16_Witness ==
    /\ pc = "done" /\ exit = "descent_failure" /\ maxiter = 2
    /\ Cardinality({e \in 1..Len(events) : events[e].op = "cg_solve"}) = MaxAttempts

\* The update_x calls of the current outer iteration.
UpdateXEvents == {e \in 1..Len(events) : events[e].op = "update_x"}

\* The phases of an outer iteration from the first use of the gradient to the commit.
IterationBody == AfterCheck \cup {"l1_norm", "l1_norm_wait", "max_abs", "max_abs_wait",
                                  "check"}

\* C17: an outer iteration calls update_x once, on x, with the Hessian requested,
\* and with the handle of the operation that produced x as its dependency: from
\* the second iteration on that is the previous iteration's commit copy, which has
\* completed when update_x does.  The norms read the gradient that call produced,
\* and at the check the gradient is the objective's gradient at the committed x.
C17_EvaluatesCommittedIterate ==
    /\ Cardinality(UpdateXEvents) <= 1
    /\ pc \in IterationBody => Cardinality(UpdateXEvents) = 1
    /\ \A e \in UpdateXEvents :
          /\ events[e].reads = {"x"} /\ "hessian" \in events[e].writes
          /\ events[e].declared
          /\ host.cur_iter_id >= 2 =>
                /\ events[e].deps = {FirstEvent}
                /\ events[FirstEvent].op = "copy"
          /\ e \in done => FirstEvent \in done
    /\ \A e \in 1..Len(events) :
          events[e].op \in {"l1_norm", "max_abs"} =>
              events[e].producers = UpdateXEvents /\ events[e].deps = UpdateXEvents
    /\ pc = "check" =>
          /\ gradient \in GradientOutcomes(f, x)
          /\ host.cur_iter_id >= 2 => x = buffer2

C17_Witness ==
    /\ pc = "check" /\ host.cur_iter_id = 2 /\ f = "quadratic"
    /\ x = Zero(5) /\ gradient = Zero(5) /\ events[FirstEvent].op = "copy"

\* The commit copies issued and not yet completed.
PendingCopies == {e \in InFlight : events[e].op = "copy"}

\* C18: no operation that writes buffer2 is issued, and buffer2 is not written,
\* while a commit copy, which reads buffer2, is pending: the reductions the host
\* has waited for are ordered after update_x and through it after the copy.
C18_CopyReadsBeforeRewrite ==
    /\ [][buffer2' # buffer2 => PendingCopies = {}]_vars
    /\ []((\E e \in 1..Len(events) : "buffer2" \in events[e].writes)
             => PendingCopies = {})
    /\ [](\A e \in 1..Len(events) :
             (events[e].op \in {"l1_norm", "max_abs"} /\ host.cur_iter_id >= 2) =>
                 /\ events[FirstEvent].op = "copy"
                 /\ FirstEvent \in AncestorsOf(e)
                 /\ e \in done => FirstEvent \in done)

C18_Witness ==
    /\ pc = "dot_desc" /\ host.cur_iter_id = 2 /\ events[FirstEvent].op = "copy"
    /\ \E e \in InFlight : events[e].op = "cg_solve"

\* C19: after the return, once the returned event has completed no commit copy is
\* pending.  At the cap the event is the last commit copy (the default event if
\* the loop body never ran), and x is the committed point once it has completed;
\* at the convergence exit it is the previous commit copy, which has completed, or
\* the default event in the first iteration, and x is the iterate the check was
\* made on; at the descent failure it is the last desc reduction, which has
\* completed, as has the previous commit.
C19_HandleCoversWritesToX ==
    pc = "done" =>
        /\ IsDone(result.event) => PendingCopies = {}
        /\ exit = "cap" =>
              /\ result.event = IF host.cur_iter_id >= 1 THEN FirstEvent ELSE NoEvent
              /\ host.cur_iter_id >= 1 =>
                    /\ events[FirstEvent].op = "copy"
                    /\ IsDone(result.event) => x = buffer2
              /\ host.cur_iter_id = 0 => x = X0
        /\ exit = "converged" =>
              /\ result.event = IF host.cur_iter_id >= 2 THEN FirstEvent ELSE NoEvent
              /\ IsDone(result.event)
              /\ host.cur_iter_id >= 2 => events[FirstEvent].op = "copy" /\ x = buffer2
              /\ host.cur_iter_id = 1 => x = X0
        /\ exit = "descent_failure" =>
              /\ events[result.event].op = "dot_product_desc"
              /\ IsDone(result.event)
              /\ host.cur_iter_id = 1 => x = X0

C19_Witness ==
    /\ pc = "done" /\ exit = "cap" /\ result.event = FirstEvent
    /\ FirstEvent \in done /\ x = buffer2 /\ x # X0

\* The negations of the gradient buffer issued in the current outer iteration.
Negations == {e \in 1..Len(events) : events[e].op = "element_wise"}

\* C20: the gradient buffer changes only when update_x or the negation completes.
\* An iteration that passes the convergence check issues the negation once, after
\* the norms have been read; the direction reset, every cg_solve attempt and every
\* desc reduction are ordered after it, and by the first attempt it has completed,
\* so all attempts see the same negated gradient.  Up to the check, and at the
\* convergence exit, no negation has been issued and the gradient is as update_x
\* left it.
C20_GradientNegatedOnce ==
    /\ [][gradient' # gradient =>
             \E e \in InFlight : /\ events[e].op \in {"update_x", "element_wise"}
                                 /\ e \in done']_vars
    /\ [](/\ Cardinality(Negations) <= 1
          /\ pc \in AfterCheck \ {"negate"} => Cardinality(Negations) = 1
          /\ pc \in IterationBody \ (AfterCheck \ {"negate"}) => Negations = {}
          /\ \A e \in Negations : \A r \in 1..Len(events) :
                events[r].op \in {"l1_norm", "max_abs"} => r < e /\ r \in done
          /\ \A e \in 1..Len(events) :
                /\ events[e].op = "fill" => events[e].deps = Negations
                /\ events[e].op = "cg_solve" =>
                      \E d \in events[e].deps :
                          events[d].op \in {"fill", "dot_product_desc"}
                /\ events[e].op = "dot_product_desc" =>
                      \E d \in events[e].deps : events[d].op = "cg_solve"
                /\ events[e].op \in {"cg_solve", "dot_product_desc"} =>
                      /\ Negations \subseteq done
                      /\ f # "opaque" => gradient = Neg(Scaled(Curvature(f), x))
          /\ exit = "converged" =>
                /\ Negations = {}
                /\ f # "opaque" => gradient = Scaled(Curvature(f), x))

C20_Witness ==
    /\ pc = "cg_solve" /\ host.iter_num = 3 /\ Cardinality(Negations) = 1
    /\ Negations \subseteq done /\ gradient # Zero(Len(gradient))
====
